---------------------------- MODULE Spec2Model ----------------------------
(***************************************************************************)
(* Debit Note Automation Tool.                                             *)
(*                                                                         *)
(* Three state machines over one set of variables:                         *)
(*   Spec        the upload form (app/page.tsx) talking to the conversion  *)
(*               engine over HTTP;                                         *)
(*   SpecService the conversion engine called directly with arbitrary      *)
(*               documents and suffixes;                                   *)
(*   SpecGate    the Basic-auth middleware (middleware.ts) in front of the *)
(*               application.                                              *)
(* The engine (api/server.py, api/main.py) is not among the source files;  *)
(* its pipeline is modelled from sections 2-7 of the specification.        *)
(*                                                                         *)
(* Text the program inspects character by character (suffixes, paths,      *)
(* headers) is a sequence of one-character strings; credentials are        *)
(* sequences of byte values, as atob returns them.  Text the program only  *)
(* passes along (messages, error tags) is a TLA+ string.                   *)
(***************************************************************************)
EXTENDS Integers, Sequences, FiniteSets, TLC

VARIABLES
  file, refA, refB, loading, errorMsg,   \* useState cells of Home
  fetches,                               \* fetch() calls not yet settled
  effect,                                \* what the last handler run did
  probe, memo,                           \* SpecRepeat: inputs watched, first results
  call, result,                          \* engine: the call and its outcome
  USER, PASS,                            \* middleware: configured credentials
  gateReq, gateResp                      \* middleware: last request, answer

formVars == <<file, refA, refB, loading, errorMsg, fetches, effect>>
svcVars  == <<call, result>>
gateVars == <<USER, PASS, gateReq, gateResp>>
memoVars == <<probe, memo>>
vars     == <<formVars, memoVars, svcVars, gateVars>>

---------------------------------------------------------------------------
(* Bounds *)

MaxLen    == 2      \* longest text typed into a suffix field
MaxBlocks == 2      \* most blocks in an uploaded document
MaxCred   == 2      \* longest user name or password

---------------------------------------------------------------------------
(* Text helpers *)

StringsOver(chars, n) == UNION {[1..k -> chars] : k \in 0..n}

RECURSIVE TrimStart(_)
TrimStart(s) ==
  IF s # <<>> /\ Head(s) = " " THEN TrimStart(Tail(s)) ELSE s

RECURSIVE TrimEnd(_)
TrimEnd(s) ==
  IF s # <<>> /\ s[Len(s)] = " " THEN TrimEnd(SubSeq(s, 1, Len(s) - 1)) ELSE s

\* String.prototype.trim
Trim(s) == TrimEnd(TrimStart(s))

\* String.prototype.startsWith
StartsWith(s, p) == Len(s) >= Len(p) /\ SubSeq(s, 1, Len(p)) = p

\* a || b on strings: the empty string is falsy
OrElse(a, b) == IF a = "" THEN b ELSE a

\* null of a useState cell that otherwise holds a string
Null == "<null>"

---------------------------------------------------------------------------
(* Conversion engine, from the specification                               *)

Digits  == {"0", "1", "2", "3", "4", "5", "6", "7", "8", "9"}
Lowers  == {"a", "b", "c", "d", "e", "f", "g", "h", "i", "j", "k", "l", "m",
            "n", "o", "p", "q", "r", "s", "t", "u", "v", "w", "x", "y", "z"}
Uppers  == {"A", "B", "C", "D", "E", "F", "G", "H", "I", "J", "K", "L", "M",
            "N", "O", "P", "Q", "R", "S", "T", "U", "V", "W", "X", "Y", "Z"}

\* 4.3: alphanumeric, hyphen, underscore
SafeChars == Digits \cup Lowers \cup Uppers \cup {"-", "_"}

\* the suffix policy, were it to look at the characters only
ValidSuffixCharsOnly(s) == \A i \in 1..Len(s) : s[i] \in SafeChars

ValidSuffix(s) == s # <<>> /\ \A i \in 1..Len(s) : s[i] \in SafeChars

\* 8: the fixed prefix
FixedPrefix == <<"D", "N", "-", "R", "H", "B">>

\* 3: ReferenceId is <fixed-prefix>-<user-supplied-suffix>
ReferenceId(suffix) == FixedPrefix \o <<"-">> \o suffix

\* 4.3 ReferenceComposer
ComposeReferences(a, b) ==
  IF ValidSuffix(a) /\ ValidSuffix(b)
    THEN [ok |-> TRUE,  error |-> "",              A |-> ReferenceId(a), B |-> ReferenceId(b)]
    ELSE [ok |-> FALSE, error |-> "InvalidSuffix", A |-> <<>>,           B |-> <<>>]

\* 3: a block is a paragraph (text) or a table (rows of cell texts); a text
\* is a sequence of words
Para(text)  == [kind |-> "para",  text |-> text, rows |-> <<>>]
Table(rows) == [kind |-> "table", text |-> <<>>, rows |-> rows]

\* 4.1 DocumentReader: bytes of the DOCX family decode to their blocks, in
\* source order; anything else is unreadable
ReadDocument(bytes) ==
  IF bytes.family = "docx"
    THEN [ok |-> TRUE,  error |-> "",                   raw |-> bytes.blocks]
    ELSE [ok |-> FALSE, error |-> "UnreadableDocument", raw |-> <<>>]

\* 4.2 (2): label spellings are matched case-insensitively
LowerCase(w) ==
  CASE w \in {"Insured", "INSURED"}     -> "insured"
    [] w \in {"Premium", "PREMIUM"}     -> "premium"
    [] w \in {"Brokerage", "BROKERAGE"} -> "brokerage"
    [] OTHER -> w

Separators == {":"}

\* 4.2 (2): tolerant of trailing punctuation and whitespace
RECURSIVE StripTrailing(_)
StripTrailing(text) ==
  IF text # <<>> /\ text[Len(text)] \in Separators \cup {" "}
    THEN StripTrailing(SubSeq(text, 1, Len(text) - 1))
    ELSE text

NormalizeLabel(text) ==
  LET t == StripTrailing(text) IN [i \in 1..Len(t) |-> LowerCase(t[i])]

\* 4.2 (1), 9: the declared, ordered table of fields and accepted spellings
LabelTable ==
  << [key |-> "insured",   labels |-> {<<"insured">>}],
     [key |-> "premium",   labels |-> {<<"premium">>}],
     [key |-> "brokerage", labels |-> {<<"brokerage">>}] >>

Placeholder == <<"[not found]">>

\* 4.2 (1a): rows of the document's tables, in document order
RECURSIVE RowsOf(_)
RowsOf(raw) ==
  IF raw = <<>> THEN <<>>
  ELSE (IF Head(raw).kind = "table" THEN Head(raw).rows ELSE <<>>) \o RowsOf(Tail(raw))

\* 4.2 (1a): first row whose first cell is a label of the field; the value is
\* the following cell
TableLookup(raw, labels) ==
  LET rows == RowsOf(raw)
      hits == {i \in 1..Len(rows) :
                 Len(rows[i]) >= 2 /\ NormalizeLabel(rows[i][1]) \in labels}
  IN IF hits = {} THEN [found |-> FALSE, value |-> <<>>]
     ELSE LET i == CHOOSE j \in hits : \A k \in hits : j <= k
          IN [found |-> TRUE, value |-> rows[i][2]]

\* 4.2 (1b): a paragraph holding a label followed by a separator; the value
\* is the remainder of the paragraph
InlineSplit(text, labels) ==
  LET cuts == {i \in 1..Len(text) :
                 text[i] \in Separators /\ NormalizeLabel(SubSeq(text, 1, i)) \in labels}
  IN IF cuts = {} THEN [found |-> FALSE, value |-> <<>>]
     ELSE LET i == CHOOSE j \in cuts : \A k \in cuts : j <= k
          IN [found |-> TRUE, value |-> SubSeq(text, i + 1, Len(text))]

InlineLookup(raw, labels) ==
  LET hits == {i \in 1..Len(raw) :
                 raw[i].kind = "para" /\ InlineSplit(raw[i].text, labels).found}
  IN IF hits = {} THEN [found |-> FALSE, value |-> <<>>]
     ELSE LET i == CHOOSE j \in hits : \A k \in hits : j <= k
          IN InlineSplit(raw[i].text, labels)

\* 4.2 (1), (4): strategies in order, then the placeholder
ExtractField(raw, labels) ==
  LET t == TableLookup(raw, labels)
      p == InlineLookup(raw, labels)
  IN IF t.found THEN t.value ELSE IF p.found THEN p.value ELSE Placeholder

FieldKeys == {LabelTable[i].key : i \in 1..Len(LabelTable)}

LabelsOf(key) ==
  LET i == CHOOSE j \in 1..Len(LabelTable) : LabelTable[j].key = key
  IN LabelTable[i].labels

\* the extractor, were a field no strategy finds to fail the extraction
ExtractFieldsStrict(raw) ==
  IF raw = <<>> \/ \E k \in FieldKeys : ExtractField(raw, LabelsOf(k)) = Placeholder
    THEN [ok |-> FALSE, error |-> "ExtractionFailed", fields |-> <<>>]
    ELSE [ok |-> TRUE,  error |-> "",
          fields |-> [k \in FieldKeys |-> ExtractField(raw, LabelsOf(k))]]

\* 4.2 FieldExtractor
ExtractFields(raw) ==
  IF raw = <<>>
    THEN [ok |-> FALSE, error |-> "ExtractionFailed", fields |-> <<>>]
    ELSE [ok |-> TRUE,  error |-> "",
          fields |-> [k \in FieldKeys |-> ExtractField(raw, LabelsOf(k))]]

\* 4.4, 9: one schema per variant; brokerage appears in the reinsurer variant
TemplateA == <<"insured", "premium">>
TemplateB == <<"insured", "premium", "brokerage">>

\* keys required by at least one variant (3, invariant of ContractFields)
RequiredKeys == {TemplateA[i] : i \in 1..Len(TemplateA)}
                  \cup {TemplateB[i] : i \in 1..Len(TemplateB)}

\* a defective build: the template names a key no schema declares (4.4)
TemplateOf(variant, fault) ==
  LET t == IF variant = "A" THEN TemplateA ELSE TemplateB
  IN IF fault = "template" /\ variant = "B" THEN Append(t, "undeclared") ELSE t

\* 4.4 TemplateRenderer: pure substitution
Render(fields, ref, variant, fault) ==
  LET t == TemplateOf(variant, fault) IN
  IF \E i \in 1..Len(t) : t[i] \notin DOMAIN fields
    THEN [ok |-> FALSE, error |-> "RenderFailed", doc |-> <<>>]
    ELSE [ok |-> TRUE,  error |-> "",
          doc |-> [variant |-> variant, ref |-> ref,
                   lines |-> [i \in 1..Len(t) |-> <<t[i], fields[t[i]]>>]]]

\* 4.5 Bundler: two entries, named from the variant and the reference
BundleUp(docA, docB, fault) ==
  IF fault = "io"
    THEN [ok |-> FALSE, error |-> "BundlingFailed", bundle |-> <<>>]
    ELSE [ok |-> TRUE,  error |-> "",
          bundle |-> << [name |-> <<"A", docA.ref>>, data |-> docA],
                        [name |-> <<"B", docB.ref>>, data |-> docB] >>]

Failure(stages, tag, fields, refs) ==
  [ok |-> FALSE, error |-> tag, stages |-> stages, bundle |-> {},
   fields |-> fields, refs |-> refs]

\* 2: the pipeline's stages, in order
Pipeline == <<"read", "extract", "compose", "renderA", "renderB", "bundle">>

\* 4.6 ConversionService.convert: the pipeline in the order of section 2,
\* stopping at the first stage that fails
Convert(bytes, a, b, fault) ==
  LET rd == ReadDocument(bytes) IN
  IF ~rd.ok THEN Failure(SubSeq(Pipeline, 1, 1), rd.error, {}, {}) ELSE
  LET ex == ExtractFields(rd.raw) IN
  IF ~ex.ok THEN Failure(SubSeq(Pipeline, 1, 2), ex.error, {}, {}) ELSE
  LET rf == ComposeReferences(a, b) IN
  IF ~rf.ok THEN Failure(SubSeq(Pipeline, 1, 3), rf.error, {ex.fields}, {}) ELSE
  LET ra == Render(ex.fields, rf.A, "A", fault) IN
  IF ~ra.ok THEN Failure(SubSeq(Pipeline, 1, 4), ra.error, {ex.fields}, {<<rf.A, rf.B>>}) ELSE
  LET rb == Render(ex.fields, rf.B, "B", fault) IN
  IF ~rb.ok THEN Failure(SubSeq(Pipeline, 1, 5), rb.error, {ex.fields}, {<<rf.A, rf.B>>}) ELSE
  LET bu == BundleUp(ra.doc, rb.doc, fault) IN
  IF ~bu.ok THEN Failure(Pipeline, bu.error, {ex.fields}, {<<rf.A, rf.B>>}) ELSE
  [ok |-> TRUE, error |-> "", stages |-> Pipeline,
   bundle |-> {bu.bundle}, fields |-> {ex.fields}, refs |-> {<<rf.A, rf.B>>}]

\* what can go wrong inside the engine besides the input: nothing, a
\* template defect, an archive writer error
Faults == {"none", "template", "io"}

\* 6, 7: the HTTP boundary maps the outcome to a response: the archive, or a
\* non-ok status with the error's message
HttpProcess(req, bytes, fault) ==
  LET r == Convert(bytes, req.ref_suffix_a, req.ref_suffix_b, fault)
  IN [kind |-> "response", ok |-> r.ok, text |-> r.error, blob |-> r.bundle,
      message |-> "", conv |-> {r}]

---------------------------------------------------------------------------
(* Documents *)

\* paragraphs and tables a slip note is assembled from
BlockParties ==
  Table(<< << <<"Insured">>, <<"Acme">> >>,
           << <<"Brokerage", ":">>, <<"10%">> >>,
           << <<"Total">> >> >>)
BlockInsured == Para(<<"INSURED", " ", ":", "Orion">>)
BlockPremium == Para(<<"Premium", ":", "USD", "100">>)
BlockNote    == Para(<<"Slip", "note">>)

BlockPool == {BlockParties, BlockInsured, BlockPremium, BlockNote}

Docx(blocks) == [family |-> "docx",  blocks |-> blocks]
NotDocx      == [family |-> "other", blocks |-> <<>>]

Documents == {NotDocx} \cup {Docx(bs) : bs \in StringsOver(BlockPool, MaxBlocks)}

\* files the user can pick, and their bytes
Files == {"slip.docx", "blank.docx", "notes.txt"}

FileBytes(f) ==
  CASE f = "slip.docx"  -> Docx(<< Table(<< << <<"Insured">>, <<"Acme">> >> >>),
                                   Para(<<"Premium", ":", "USD", "100">>) >>)
    [] f = "blank.docx" -> Docx(<<>>)
    [] OTHER            -> NotDocx

---------------------------------------------------------------------------
(* Upload form: app/page.tsx *)

FormChars == {"1", " "}
\* what can be typed into a suffix field: texts of digits and blanks, and one
\* with a character that is neither
Typed     == StringsOver(FormChars, MaxLen) \cup {<<"1", "/">>}

\* the button, were it to forget the request in flight
CanGenerateWhileLoading(f, a, b, l) ==
  f # Null /\ Len(Trim(a)) > 0 /\ Len(Trim(b)) > 0

\* line 24
CanGenerate(f, a, b, l) ==
  f # Null /\ Len(Trim(a)) > 0 /\ Len(Trim(b)) > 0 /\ ~l

\* the FormData, were the two suffix fields appended under each other's name
BuildRequestSwapped(f, a, b) ==
  [slip |-> f, ref_suffix_a |-> Trim(b), ref_suffix_b |-> Trim(a)]

\* the FormData, were the suffixes appended untrimmed while an error is shown
BuildRequestAfterError(f, a, b) ==
  IF errorMsg = Null
    THEN [slip |-> f, ref_suffix_a |-> Trim(a), ref_suffix_b |-> Trim(b)]
    ELSE [slip |-> f, ref_suffix_a |-> a, ref_suffix_b |-> b]

\* lines 31-34: the FormData of one request
BuildRequest(f, a, b) ==
  [slip |-> f, ref_suffix_a |-> Trim(a), ref_suffix_b |-> Trim(b)]

\* lines 113, 129: "Will render as DN-RHB-{ref || "..."}"
Announce(ref) ==
  <<"D", "N", "-", "R", "H", "B", "-">>
    \o (IF ref = <<>> THEN <<".", ".", ".">> ELSE ref)

\* lines 41-56: what the handler does once its fetch settles
Settle(outcome, prevError) ==
  IF outcome.kind = "response" /\ outcome.ok
    THEN [errorMsg |-> prevError, download |-> outcome.blob]
    ELSE LET thrown == IF outcome.kind = "response"
                         THEN OrElse(outcome.text, "Failed to generate documents")
                         ELSE outcome.message
         IN [errorMsg |-> OrElse(thrown, "Something went wrong"), download |-> {}]

\* the handler, were it to leave a failed request in flight to try it again
PendingAfterRetry(fs, i, outcome) ==
  IF outcome.kind = "response" /\ outcome.ok
    THEN SubSeq(fs, 1, i - 1) \o SubSeq(fs, i + 1, Len(fs))
    ELSE fs

\* lines 55-59: the handler ends after catch/finally; it issues nothing more
PendingAfter(fs, i, outcome) ==
  SubSeq(fs, 1, i - 1) \o SubSeq(fs, i + 1, Len(fs))

NoEffect == [kind |-> "none", sent |-> <<>>, call |-> {}, outcome |-> {}, download |-> {}]

\* lines 18-22
onPickFile(f) ==
  /\ errorMsg' = Null
  /\ file' = f
  /\ effect' = NoEffect
  /\ UNCHANGED <<refA, refB, loading, fetches>>

\* line 108
setRefA(v) ==
  /\ refA' = v
  /\ effect' = NoEffect
  /\ UNCHANGED <<file, refB, loading, errorMsg, fetches>>

\* line 124
setRefB(v) ==
  /\ refB' = v
  /\ effect' = NoEffect
  /\ UNCHANGED <<file, refA, loading, errorMsg, fetches>>

\* lines 26-39: a click on Generate, up to the await
handleGenerate ==
  IF ~CanGenerate(file, refA, refB, loading)
    THEN /\ effect' = [NoEffect EXCEPT !.kind = "ignored"]
         /\ UNCHANGED <<file, refA, refB, loading, errorMsg, fetches>>
    ELSE LET req == BuildRequest(file, refA, refB)
             \* the request, and whether each suffix in it is the field's
             \* text as typed
             c == [req |-> req,
                   verbatimA |-> req.ref_suffix_a = refA,
                   verbatimB |-> req.ref_suffix_b = refB]
         IN /\ loading' = TRUE
            /\ errorMsg' = Null
            /\ fetches' = Append(fetches, c)
            /\ effect' = [NoEffect EXCEPT !.kind = "sent", !.sent = <<c.req>>, !.call = {c}]
            /\ UNCHANGED <<file, refA, refB>>

\* lines 41-59: the rest of the handler, run when fetch number i settles
Resume(i, outcome) ==
  LET s == Settle(outcome, errorMsg) IN
  /\ errorMsg' = s.errorMsg
  /\ loading' = FALSE
  /\ fetches' = PendingAfter(fetches, i, outcome)
  /\ effect' = [NoEffect EXCEPT !.kind = "settled", !.call = {fetches[i]},
                                !.outcome = {outcome}, !.download = s.download]
  /\ UNCHANGED <<file, refA, refB>>

\* the engine's answer to a request
EngineOutcome(req, fault) == HttpProcess(req, FileBytes(req.slip), fault)

\* something between the browser and the engine answers with a non-ok status
\* and no body
GatewayOutcome ==
  [kind |-> "response", ok |-> FALSE, text |-> "", blob |-> {},
   message |-> "", conv |-> {}]

\* messages of errors thrown by fetch or by reading the body
ThrownMessages == {"Failed to fetch", ""}

ThrownOutcome(m) ==
  [kind |-> "threw", ok |-> FALSE, text |-> "", blob |-> {},
   message |-> m, conv |-> {}]

NoProbe  == [file |-> Null, a |-> <<>>, b |-> <<>>]
NoMemo   == [req |-> {}, blob |-> {}, n |-> 0]
MemoIdle == /\ probe = NoProbe
            /\ memo = NoMemo
NoCall   == [bytes |-> NotDocx, a |-> <<>>, b |-> <<>>, fault |-> "none"]
SvcIdle  == /\ call = NoCall
            /\ result = {}
GateIdle == /\ USER = <<>>
            /\ PASS = <<>>
            /\ gateReq = {}
            /\ gateResp = {}

\* lines 12-16
FormInit ==
  /\ file = Null
  /\ refA = <<>>
  /\ refB = <<>>
  /\ loading = FALSE
  /\ errorMsg = Null
  /\ fetches = <<>>
  /\ effect = NoEffect

---------------------------------------------------------------------------
(* The form in use: Spec *)

Rest == UNCHANGED <<memoVars, svcVars, gateVars>>

\* a field's text changes by one keystroke: a character added to or removed
\* from its end
Keystroke(old, new) ==
  \/ Len(new) = Len(old) + 1 /\ SubSeq(new, 1, Len(old)) = old
  \/ Len(old) = Len(new) + 1 /\ SubSeq(old, 1, Len(new)) = new

PickFile(f)  == onPickFile(f) /\ Rest
TypeA(v)     == Keystroke(refA, v) /\ setRefA(v) /\ Rest
TypeB(v)     == Keystroke(refB, v) /\ setRefB(v) /\ Rest
Click        == handleGenerate /\ Rest
EngineResponds(i, fault) == Resume(i, EngineOutcome(fetches[i].req, fault)) /\ Rest
GatewayFails(i)          == Resume(i, GatewayOutcome) /\ Rest
FetchThrows(i, m)        == Resume(i, ThrownOutcome(m)) /\ Rest

Init == FormInit /\ MemoIdle /\ SvcIdle /\ GateIdle

Next ==
  \/ \E f \in Files \cup {Null} : PickFile(f)
  \/ \E v \in Typed : TypeA(v)
  \/ \E v \in Typed : TypeB(v)
  \/ Click
  \/ \E i \in 1..Len(fetches), fault \in Faults : EngineResponds(i, fault)
  \/ \E i \in 1..Len(fetches) : GatewayFails(i)
  \/ \E i \in 1..Len(fetches), m \in ThrownMessages : FetchThrows(i, m)

Spec == Init /\ [][Next]_vars

---------------------------------------------------------------------------
(* The same conversion asked for again: SpecRepeat                         *)
(* The user keeps to one text per suffix field (probe.a, probe.b) and      *)
(* converts probe.file with them time and again, between conversions of    *)
(* other files and failed requests.  memo keeps the first request sent for *)
(* the probe and the first archive downloaded for it.                      *)

Probes == [file : {"slip.docx"}, a : Typed, b : Typed]

IsProbe(req) == req.slip = probe.file

Remember(m, kind, req, download) ==
  IF ~IsProbe(req) THEN m
  ELSE IF kind = "sent" THEN [m EXCEPT !.req = IF m.req = {} THEN {req} ELSE m.req]
  ELSE [m EXCEPT !.blob = IF m.blob = {} THEN download ELSE m.blob,
                 !.n = IF download = {} \/ m.n = 2 THEN m.n ELSE m.n + 1]

\* memo follows what the handler just did
Watch ==
  /\ probe' = probe
  /\ memo' = IF effect'.kind \in {"sent", "settled"}
               THEN LET c == CHOOSE x \in effect'.call : TRUE
                    IN Remember(memo, effect'.kind, c.req, effect'.download)
               ELSE memo
  /\ UNCHANGED <<svcVars, gateVars>>

RepeatPick(f)  == onPickFile(f) /\ Watch
RepeatTypeA(v) == setRefA(v) /\ Watch
RepeatTypeB(v) == setRefB(v) /\ Watch
RepeatClick    == handleGenerate /\ Watch
RepeatEngine(i, fault) == Resume(i, EngineOutcome(fetches[i].req, fault)) /\ Watch
RepeatGateway(i)       == Resume(i, GatewayOutcome) /\ Watch
RepeatThrows(i, m)     == Resume(i, ThrownOutcome(m)) /\ Watch

InitRepeat ==
  /\ FormInit /\ SvcIdle /\ GateIdle
  /\ probe \in Probes
  /\ memo = NoMemo

NextRepeat ==
  \/ \E f \in Files : RepeatPick(f)
  \/ \E v \in {<<>>, probe.a} : RepeatTypeA(v)
  \/ \E v \in {<<>>, probe.b} : RepeatTypeB(v)
  \/ RepeatClick
  \/ \E i \in 1..Len(fetches), fault \in Faults : RepeatEngine(i, fault)
  \/ \E i \in 1..Len(fetches) : RepeatGateway(i)
  \/ \E i \in 1..Len(fetches), m \in ThrownMessages : RepeatThrows(i, m)

SpecRepeat == InitRepeat /\ [][NextRepeat]_vars

---------------------------------------------------------------------------
(* The engine called directly: convert(document, refSuffixA, refSuffixB)   *)

SvcChars    == {"1", "_", "/"}
SvcSuffixes == StringsOver(SvcChars, MaxLen)

\* 4.6: one request -> response transaction; nothing is kept between calls
Serve(fault) ==
  /\ result = {}
  /\ call' = [call EXCEPT !.fault = fault]
  /\ result' = {Convert(call.bytes, call.a, call.b, fault)}
  /\ UNCHANGED <<formVars, memoVars, gateVars>>

InitService ==
  /\ FormInit /\ MemoIdle /\ GateIdle
  /\ call \in [bytes : Documents, a : SvcSuffixes, b : SvcSuffixes, fault : {"none"}]
  /\ result = {}

NextService == \E fault \in Faults : Serve(fault)

SpecService == InitService /\ [][NextService]_vars

---------------------------------------------------------------------------
(* Access gate: middleware.ts *)

B64Alphabet ==
  <<"A", "B", "C", "D", "E", "F", "G", "H", "I", "J", "K", "L", "M",
    "N", "O", "P", "Q", "R", "S", "T", "U", "V", "W", "X", "Y", "Z",
    "a", "b", "c", "d", "e", "f", "g", "h", "i", "j", "k", "l", "m",
    "n", "o", "p", "q", "r", "s", "t", "u", "v", "w", "x", "y", "z",
    "0", "1", "2", "3", "4", "5", "6", "7", "8", "9", "+", "/">>

B64Char(n)  == B64Alphabet[n + 1]
B64Value(c) == (CHOOSE i \in 1..64 : B64Alphabet[i] = c) - 1

\* what a browser puts after "Basic ": base64 of the bytes of user:password
RECURSIVE B64Encode(_)
B64Encode(bs) ==
  IF bs = <<>> THEN <<>>
  ELSE IF Len(bs) = 1 THEN
    <<B64Char(bs[1] \div 4), B64Char((bs[1] % 4) * 16), "=", "=">>
  ELSE IF Len(bs) = 2 THEN
    <<B64Char(bs[1] \div 4), B64Char((bs[1] % 4) * 16 + bs[2] \div 16),
      B64Char((bs[2] % 16) * 4), "=">>
  ELSE
    <<B64Char(bs[1] \div 4), B64Char((bs[1] % 4) * 16 + bs[2] \div 16),
      B64Char((bs[2] % 16) * 4 + bs[3] \div 64), B64Char(bs[3] % 64)>>
      \o B64Encode(SubSeq(bs, 4, Len(bs)))

RECURSIVE B64Bytes(_)
B64Bytes(cs) ==
  IF Len(cs) < 2 THEN <<>>
  ELSE LET v1 == B64Value(cs[1])
           v2 == B64Value(cs[2])
       IN IF Len(cs) = 2 THEN <<v1 * 4 + v2 \div 16>>
          ELSE LET v3 == B64Value(cs[3]) IN
               IF Len(cs) = 3 THEN <<v1 * 4 + v2 \div 16, (v2 % 16) * 16 + v3 \div 4>>
               ELSE <<v1 * 4 + v2 \div 16, (v2 % 16) * 16 + v3 \div 4,
                      (v3 % 4) * 64 + B64Value(cs[4])>>
                      \o B64Bytes(SubSeq(cs, 5, Len(cs)))

\* line 33, atob: up to two trailing "=" of a padded input are dropped; a
\* length of 1 mod 4 or a character outside the alphabet throws
atob(cs) ==
  LET n  == Len(cs)
      d  == IF n % 4 = 0 /\ n >= 2 /\ cs[n] = "=" /\ cs[n - 1] = "=" THEN SubSeq(cs, 1, n - 2)
            ELSE IF n % 4 = 0 /\ n >= 1 /\ cs[n] = "=" THEN SubSeq(cs, 1, n - 1)
            ELSE cs
      al == {B64Alphabet[i] : i \in 1..64}
  IN IF Len(d) % 4 = 1 \/ \E i \in 1..Len(d) : d[i] \notin al
       THEN [threw |-> TRUE,  bytes |-> <<>>]
       ELSE [threw |-> FALSE, bytes |-> B64Bytes(d)]

\* String.prototype.split on a one-character separator
RECURSIVE Split(_, _)
Split(s, sep) ==
  IF \A i \in 1..Len(s) : s[i] # sep THEN <<s>>
  ELSE LET i == CHOOSE j \in 1..Len(s) : s[j] = sep /\ \A k \in 1..(j - 1) : s[k] # sep
       IN <<SubSeq(s, 1, i - 1)>> \o Split(SubSeq(s, i + 1, Len(s)), sep)

Colon == 58

\* lines 24-27 and 43-46
Challenge(body, www) ==
  [kind |-> "response", status |-> 401, body |-> body, wwwAuthenticate |-> www]

\* line 16, 36: NextResponse.next()
PassThrough ==
  [kind |-> "next", status |-> 0, body |-> "", wwwAuthenticate |-> ""]

Path_next    == <<"/", "_", "n", "e", "x", "t", "/">>
PathFavicon  == <<"/", "f", "a", "v", "i", "c", "o", "n", ".", "i", "c", "o">>
PathRobots   == <<"/", "r", "o", "b", "o", "t", "s", ".", "t", "x", "t">>
PathSitemap  == <<"/", "s", "i", "t", "e", "m", "a", "p", ".", "x", "m", "l">>

\* lines 10-15
ExemptPrefixes == {Path_next, PathFavicon, PathRobots, PathSitemap}

BasicSpace == <<"B", "a", "s", "i", "c", " ">>

\* lines 32-35: the pair the header is compared by; a missing second part is
\* undefined, which equals no string
Credentials(auth) ==
  LET base64  == Split(auth, " ")[2]
      decoded == atob(base64)
      parts   == Split(decoded.bytes, Colon)
  IN [threw |-> decoded.threw,
      user  |-> parts[1],
      pass  |-> IF Len(parts) >= 2 THEN {parts[2]} ELSE {}]

\* lines 7-47
middleware(req, user, pass) ==
  IF \E p \in ExemptPrefixes : StartsWith(req.pathname, p) THEN PassThrough
  ELSE IF ~StartsWith(req.authorization, BasicSpace)
    THEN Challenge("Authentication required.", "Basic realm=\"Protected Area\"")
  ELSE LET c == Credentials(req.authorization) IN
       IF ~c.threw /\ c.user = user /\ c.pass = {pass} THEN PassThrough
       ELSE Challenge("Invalid credentials.",
                      "Basic realm=\"Protected Area\", charset=\"UTF-8\"")

\* line 51: the alternatives of the matcher's negative lookahead, read as the
\* regular expressions they are ("." stands for any character)
MatcherExclusions ==
  { Tail(Path_next), Tail(PathFavicon), Tail(PathRobots), Tail(PathSitemap) }

RegexAtStart(s, pat) ==
  Len(s) >= Len(pat) /\ \A i \in 1..Len(pat) : pat[i] = "." \/ pat[i] = s[i]

\* lines 50-52: the paths the middleware is run for
MatcherMatches(pathname) ==
  /\ pathname # <<>> /\ Head(pathname) = "/"
  /\ ~\E pat \in MatcherExclusions : RegexAtStart(Tail(pathname), pat)

\* the framework: a request the matcher does not select goes to the
\* application without the middleware
Dispatch(req, user, pass) ==
  IF MatcherMatches(req.pathname) THEN middleware(req, user, pass) ELSE PassThrough

CredChars == {117, Colon}          \* "u" and ":"
Creds     == StringsOver(CredChars, MaxCred)
\* a user-id of the Basic scheme holds no colon
UserNames == StringsOver(CredChars \ {Colon}, MaxCred)

Paths ==
  { <<"/">>,
    <<"/", "a", "p", "i">>,
    Path_next \o <<"x">>,
    PathFavicon,
    <<"/", "f", "a", "v", "i", "c", "o", "n", "X", "i", "c", "o">>,
    PathRobots }

\* Authorization headers: none, a browser's for a user name and password,
\* another scheme, and malformed ones
Headers ==
  { <<>>, BasicSpace, BasicSpace \o <<"!", "!">>, BasicSpace \o <<"d">>,
    <<"B", "e", "a", "r", "e", "r", " ">> \o B64Encode(<<117, Colon, 117>>),
    <<"b", "a", "s", "i", "c", " ">> \o B64Encode(<<117, Colon, 117>>) }
  \cup { BasicSpace \o B64Encode(u \o <<Colon>> \o p) : u \in UserNames, p \in Creds }
  \cup { BasicSpace \o B64Encode(u) : u \in Creds }

HandleRequest(pathname, auth) ==
  LET req == [pathname |-> pathname, authorization |-> auth] IN
  /\ gateReq' = {req}
  /\ gateResp' = {Dispatch(req, USER, PASS)}
  /\ UNCHANGED <<USER, PASS, formVars, memoVars, svcVars>>

\* lines 4-5: the environment's values, or "" when unset
InitGate ==
  /\ FormInit /\ MemoIdle /\ SvcIdle
  /\ USER \in UserNames
  /\ PASS \in Creds
  /\ gateReq = {}
  /\ gateResp = {}

NextGate == \E pathname \in Paths, auth \in Headers : HandleRequest(pathname, auth)

SpecGate == InitGate /\ [][NextGate]_vars

---------------------------------------------------------------------------
(* Properties of the upload form and the engine behind it (Spec)           *)

DNRHB == <<"D", "N", "-", "R", "H", "B">>

ErrorTags ==
  {"UnreadableDocument", "ExtractionFailed", "InvalidSuffix", "RenderFailed",
   "BundlingFailed"}

StagesOfError(tag) ==
  CASE tag = "UnreadableDocument" -> {"read"}
    [] tag = "ExtractionFailed"   -> {"extract"}
    [] tag = "InvalidSuffix"      -> {"compose"}
    [] tag = "RenderFailed"       -> {"renderA", "renderB"}
    [] tag = "BundlingFailed"     -> {"bundle"}
    [] OTHER                      -> {}

\* C1: for two non-empty, safe suffixes A # B typed into the form, the request
\* carries them as typed, and the two reference identifiers of the conversion
\* are distinct, each 'DN-RHB' followed by '-' and its own suffix, which is
\* also the text the form announces under that suffix field.
TheoremC1 ==
  /\ (effect.kind = "sent" /\ ValidSuffix(refA) /\ ValidSuffix(refB) /\ refA # refB) =>
       \A c \in effect.call :
         /\ c.req.ref_suffix_a = refA
         /\ c.req.ref_suffix_b = refB
         /\ c.verbatimA /\ c.verbatimB
  /\ effect.kind = "settled" =>
       \A c \in effect.call, o \in effect.outcome : \A r \in o.conv : \A refs \in r.refs :
         (/\ c.verbatimA /\ c.verbatimB
          /\ c.req.ref_suffix_a # c.req.ref_suffix_b) =>
            /\ refs[1] # refs[2]
            /\ refs[1] = DNRHB \o <<"-">> \o c.req.ref_suffix_a
            /\ refs[2] = DNRHB \o <<"-">> \o c.req.ref_suffix_b
            /\ refs[1] = Announce(c.req.ref_suffix_a)
            /\ refs[2] = Announce(c.req.ref_suffix_b)

\* a conversion of two distinct suffixes, sent as typed, whose archive was
\* downloaded
WitnessC1 ==
  /\ effect.kind = "settled"
  /\ effect.download # {}
  /\ \E c \in effect.call :
       c.verbatimA /\ c.verbatimB /\ c.req.ref_suffix_a # c.req.ref_suffix_b

\* C3: the suffix in a reference identifier is exactly the text the user
\* entered, and no conversion proceeds (no archive is produced) when an entered
\* suffix holds a character outside alphanumeric, hyphen and underscore,
\* leading or trailing whitespace included.
ClaimC3 ==
  effect.kind = "settled" =>
    \A c \in effect.call, o \in effect.outcome : \A r \in o.conv :
      r.bundle # {} =>
        /\ c.verbatimA /\ c.verbatimB
        /\ ValidSuffix(c.req.ref_suffix_a) /\ ValidSuffix(c.req.ref_suffix_b)
        /\ r.refs = {<<DNRHB \o <<"-">> \o c.req.ref_suffix_a,
                       DNRHB \o <<"-">> \o c.req.ref_suffix_b>>}

\* C4: a failing stage ends the conversion: the stages run are the pipeline up
\* to the failing one, one error tag is returned and no bundle; one click sends
\* one request; when the request fails (non-ok response or thrown error) an
\* error message is set, nothing is downloaded and nothing is sent again.
TheoremC4 ==
  /\ effect.kind = "sent" => Len(effect.sent) = 1 /\ Len(fetches) = 1
  /\ effect.kind = "settled" =>
       \A o \in effect.outcome :
         /\ \A r \in o.conv :
              ~r.ok =>
                /\ r.error \in ErrorTags
                /\ r.bundle = {}
                /\ r.stages # <<>>
                /\ r.stages = SubSeq(Pipeline, 1, Len(r.stages))
                /\ r.stages[Len(r.stages)] \in StagesOfError(r.error)
                /\ ~o.ok /\ o.blob = {} /\ o.text = r.error
                /\ errorMsg = r.error
         /\ (o.kind = "threw" \/ ~o.ok) =>
              /\ errorMsg \notin {Null, ""}
              /\ effect.download = {}
              /\ fetches = <<>>
              /\ ~loading

\* the engine failed at rendering and the form shows that error
WitnessC4 ==
  /\ effect.kind = "settled"
  /\ effect.download = {}
  /\ errorMsg = "RenderFailed"
  /\ \E o \in effect.outcome : \E r \in o.conv :
       r.error = "RenderFailed" /\ r.stages = SubSeq(Pipeline, 1, 5)

\* C9: at most one request is in flight; a request is sent only with a file
\* selected and both suffixes non-empty after trimming, and only when none is
\* loading; a click while one is loading sends nothing.
TheoremC9 ==
  /\ Len(fetches) <= 1
  /\ loading <=> Len(fetches) = 1
  /\ effect.kind = "sent" =>
       /\ file # Null
       /\ Trim(refA) # <<>>
       /\ Trim(refB) # <<>>
       /\ fetches = <<CHOOSE c \in effect.call : TRUE>>
  /\ effect.kind = "ignored" => effect.sent = <<>>

\* a click on Generate while a request is loading, which sent nothing, with
\* inputs that would otherwise allow a request
WitnessC9 ==
  /\ effect.kind = "ignored"
  /\ loading
  /\ Len(fetches) = 1
  /\ file # Null /\ Trim(refA) # <<>> /\ Trim(refB) # <<>>

---------------------------------------------------------------------------
(* Properties of repeated conversions (SpecRepeat)                         *)

---------------------------------------------------------------------------
(* Properties of the engine (SpecService)                                  *)

Holds(block) ==
  CASE block = BlockParties -> {"insured", "brokerage"}
    [] block = BlockInsured -> {"insured"}
    [] block = BlockPremium -> {"premium"}
    [] OTHER                -> {}

FieldsIn(blocks) == UNION {Holds(blocks[i]) : i \in 1..Len(blocks)}

\* C5: for a readable document with at least one block, whichever fields it
\* lacks, extraction succeeds: the contract-field record has every key either
\* template needs, with the placeholder exactly for the fields the document
\* lacks; the conversion succeeds whenever the suffixes are valid and neither
\* rendering nor bundling fails on its own account, and the rendered
\* documents show the placeholder for each lacking field.  ExtractionFailed
\* is returned only for a readable document without blocks.
TheoremC5 ==
  \A r \in result :
    LET bytes == call.bytes
        had   == FieldsIn(bytes.blocks)
    IN /\ r.error = "ExtractionFailed" => (bytes.family = "docx" /\ bytes.blocks = <<>>)
       /\ (bytes.family = "docx" /\ bytes.blocks # <<>>) =>
            /\ r.error \notin {"UnreadableDocument", "ExtractionFailed"}
            /\ Len(r.stages) >= 3
            /\ r.fields # {}
            /\ \A f \in r.fields :
                 /\ RequiredKeys \subseteq DOMAIN f
                 /\ \A k \in RequiredKeys : k \notin had <=> f[k] = Placeholder
            /\ r.ok <=> (ValidSuffix(call.a) /\ ValidSuffix(call.b) /\ call.fault = "none")
            /\ \A b \in r.bundle : \A e \in 1..Len(b) :
                 LET lines == b[e].data.lines IN
                 /\ {lines[i][1] : i \in 1..Len(lines)}
                      = (IF b[e].data.variant = "A"
                           THEN {"insured", "premium"}
                           ELSE {"insured", "premium", "brokerage"})
                 /\ \A i \in 1..Len(lines) :
                      lines[i][1] \notin had <=> lines[i][2] = Placeholder

\* a document lacking the brokerage was converted, and the reinsurer's debit
\* note shows the placeholder for it
WitnessC5 ==
  \E r \in result :
    /\ call.bytes.family = "docx"
    /\ "brokerage" \notin FieldsIn(call.bytes.blocks)
    /\ "insured" \in FieldsIn(call.bytes.blocks)
    /\ r.ok
    /\ \E b \in r.bundle : \E i \in 1..Len(b[2].data.lines) :
         b[2].data.lines[i] = <<"brokerage", Placeholder>>

---------------------------------------------------------------------------
(* Properties of the access gate (SpecGate)                                *)

\* the user name and password a Basic header carries: the decoded text up to
\* its first colon, and the text after it
SentUserPass(auth) ==
  IF ~StartsWith(auth, BasicSpace) THEN {}
  ELSE LET d == atob(SubSeq(auth, Len(BasicSpace) + 1, Len(auth)))
           colons == {i \in 1..Len(d.bytes) : d.bytes[i] = Colon}
       IN IF d.threw \/ colons = {} THEN {}
          ELSE LET i == CHOOSE j \in colons : \A k \in colons : j <= k
               IN {<<SubSeq(d.bytes, 1, i - 1), SubSeq(d.bytes, i + 1, Len(d.bytes))>>}

Exempt(pathname) == \E p \in ExemptPrefixes : StartsWith(pathname, p)

\* C7: a request to a path outside the exempt prefixes reaches the application
\* only if its Basic header carries the configured user name and password;
\* every other such request is answered 401 with a Basic challenge.
ClaimC7 ==
  \A req \in gateReq, resp \in gateResp :
    ~Exempt(req.pathname) =>
      /\ resp.kind = "next" => SentUserPass(req.authorization) = {<<USER, PASS>>}
      /\ resp.kind # "next" =>
           /\ resp.status = 401
           /\ resp.wwwAuthenticate \in
                {"Basic realm=\"Protected Area\"",
                 "Basic realm=\"Protected Area\", charset=\"UTF-8\""}

\* C8: a request to a path outside the exempt prefixes whose header is "Basic "
\* and the base64 of user:password for the configured pair is passed through.
ClaimC8 ==
  \A req \in gateReq, resp \in gateResp :
    (/\ ~Exempt(req.pathname)
     /\ req.authorization = BasicSpace \o B64Encode(USER \o <<Colon>> \o PASS)) =>
      resp.kind = "next"

=============================================================================
